---- MODULE Spec2Model ----
(***************************************************************************)
(* Service worker of the OHADEV site: cache lifecycle (install, activate)  *)
(* and the fetch handler with its caching strategies.  Two variants of the *)
(* worker are modelled: "A" is src/sw.js, "B" is src/unnamed/part_000.     *)
(*                                                                         *)
(* Every asynchronous boundary of the code (a promise that settles: a      *)
(* cache operation, a network fetch) is one action; the synchronous code   *)
(* that runs when the promise settles belongs to that action.              *)
(***************************************************************************)
EXTENDS Integers, Sequences, FiniteSets, TLC

\* ------------------------------------------------------------------ bounds
\* number of fetch events delivered to the worker in one behaviour
MaxReq == 2
\* number of times the content served by the network changes
MaxVer == 1

\* ------------------------------------------------------------ JS strings
\* A URL path is kept in the state as a string; Chars gives its characters,
\* on which endsWith / startsWith / the extension regex are computed.
Chars(u) ==
  CASE u = "/" -> <<"/">>
    [] u = "/index.html" -> <<"/","i","n","d","e","x",".","h","t","m","l">>
    [] u = "/manifest.json" -> <<"/","m","a","n","i","f","e","s","t",".","j","s","o","n">>
    [] u = "/favicon.svg" -> <<"/","f","a","v","i","c","o","n",".","s","v","g">>
    [] u = "/assets/css/main.css" ->
         <<"/","a","s","s","e","t","s","/","c","s","s","/","m","a","i","n",".","c","s","s">>
    [] u = "/assets/media/freepik-luxury-800.webp" ->
         <<"/","a","s","s","e","t","s","/","m","e","d","i","a","/","f","r","e","e","p","i","k",
           "-","l","u","x","u","r","y","-","8","0","0",".","w","e","b","p">>
    [] u = "/assets/media/photo.webp" ->
         <<"/","a","s","s","e","t","s","/","m","e","d","i","a","/","p","h","o","t","o",
           ".","w","e","b","p">>
    [] u = "/assets/media/x.css" ->
         <<"/","a","s","s","e","t","s","/","m","e","d","i","a","/","x",".","c","s","s">>
    [] u = "/other/page.json" ->
         <<"/","o","t","h","e","r","/","p","a","g","e",".","j","s","o","n">>
    [] u = "/font" -> <<"/","f","o","n","t">>
    [] u = ".css" -> <<".","c","s","s">>
    [] u = "/assets/media" -> <<"/","a","s","s","e","t","s","/","m","e","d","i","a">>
    [] u = ".png" -> <<".","p","n","g">>
    [] u = ".jpg" -> <<".","j","p","g">>
    [] u = ".jpeg" -> <<".","j","p","e","g">>
    [] u = ".webp" -> <<".","w","e","b","p">>
    [] u = ".svg" -> <<".","s","v","g">>

\* String.prototype.endsWith
endsWith(s, suffix) ==
  LET a == Chars(s)
      b == Chars(suffix)
  IN  /\ Len(a) >= Len(b)
      /\ SubSeq(a, Len(a) - Len(b) + 1, Len(a)) = b

\* String.prototype.startsWith
startsWith(s, prefix) ==
  LET a == Chars(s)
      b == Chars(prefix)
  IN  /\ Len(a) >= Len(b)
      /\ SubSeq(a, 1, Len(b)) = b

\* /\.(png|jpg|jpeg|webp|svg)$/.test(pathname)
ImageExtensions == {".png", ".jpg", ".jpeg", ".webp", ".svg"}

imageRegexTest(s) == \E e \in ImageExtensions : endsWith(s, e)

\* ------------------------------------------------------------- constants
CACHE_VERSION == "v2"

\* `oha-${CACHE_VERSION}`
CACHE_NAME == <<"oha-", CACHE_VERSION>>

\* stores of earlier deployments that may exist when the worker installs
OldNames == {<<"oha-", "v0">>, <<"oha-", "v1">>}

CORE_ASSETS_A ==
  <<"/", "/index.html", "/manifest.json", "/favicon.svg", "/assets/css/main.css",
    "/assets/media/freepik-luxury-800.webp">>

CORE_ASSETS_B ==
  <<"/", "/index.html", "/manifest.json", "/favicon.svg", "/assets/css/main.css">>

Range(s) == {s[i] : i \in 1..Len(s)}

\* ------------------------------------------------------------- responses
Undefined == [kind |-> "undefined"]
Pending == [kind |-> "pending"]
NetworkError == [kind |-> "error"]
Response(u, v, s) == [kind |-> "response", url |-> u, ver |-> v, status |-> s]

IsResponse(x) == x.kind = "response"

\* statuses a server answers with; 200 is the success status the code tests
Statuses == {200, 404}

VARIABLES
  variant,   \* "A" (src/sw.js) or "B" (src/unnamed/part_000)
  caches,    \* CacheStorage: sequence of [name, entries] in creation order
  netVer,    \* version of the content the network serves now
  worker,    \* "parsed", "installing", "installed", "activating", "activated", "redundant"
  install,   \* progress of the install listener's promise chain
  activate,  \* progress of the activate listener's promise chain
  reqs       \* the fetch events delivered so far, one task record each

vars == <<variant, caches, netVer, worker, install, activate, reqs>>

CORE_ASSETS == IF variant = "A" THEN CORE_ASSETS_A ELSE CORE_ASSETS_B

\* ---------------------------------------------------------- CacheStorage
\* caches.keys()
keys(cs) == [i \in 1..Len(cs) |-> cs[i].name]

\* caches.has(name)
has(cs, name) == \E i \in 1..Len(cs) : cs[i].name = name

IndexOf(cs, name) == CHOOSE i \in 1..Len(cs) : cs[i].name = name

\* caches.open(name): the store is created, last in creation order, if absent
open(cs, name) ==
  IF has(cs, name) THEN cs ELSE Append(cs, [name |-> name, entries |-> <<>>])

\* cache.match(key) on one store: entries is a function from keys to responses
cacheMatch(entries, key) ==
  IF key \in DOMAIN entries THEN entries[key] ELSE Undefined

\* cache.match(key) on the store called name
storeMatch(cs, name, key) ==
  IF has(cs, name) THEN cacheMatch(cs[IndexOf(cs, name)].entries, key) ELSE Undefined

\* caches.match(key): every store is searched, in creation order
cachesMatch(cs, key) ==
  LET hits == {i \in 1..Len(cs) : key \in DOMAIN cs[i].entries}
  IN  IF hits = {} THEN Undefined
      ELSE cs[CHOOSE i \in hits : \A j \in hits : i <= j].entries[key]

\* mutant of PutEntries: the store is emptied before the entry is written
PutEntriesEvicts(entries, key, resp) == [k \in {key} |-> resp]

\* the entries of a store after cache.put(key, resp)
PutEntries(entries, key, resp) ==
  [k \in (DOMAIN entries) \cup {key} |-> IF k = key THEN resp ELSE entries[k]]

\* mutant of put: the write is lost
putLost(cs, name, key, resp) == cs

\* mutant of put: an existing entry is kept (the first writer wins)
putKeepsExisting(cs, name, key, resp) ==
  [i \in 1..Len(cs) |->
     IF cs[i].name = name /\ key \notin DOMAIN cs[i].entries
     THEN [cs[i] EXCEPT !.entries = PutEntries(cs[i].entries, key, resp)]
     ELSE cs[i]]

\* cache.put(key, resp) on the store called name: the entry is overwritten in place
put(cs, name, key, resp) ==
  [i \in 1..Len(cs) |->
     IF cs[i].name = name
     THEN [cs[i] EXCEPT !.entries = PutEntries(cs[i].entries, key, resp)]
     ELSE cs[i]]

\* cache.addAll: all the entries are written in one batch
putAll(cs, name, resps) ==
  [i \in 1..Len(cs) |->
     IF cs[i].name = name
     THEN [cs[i] EXCEPT !.entries =
             [k \in (DOMAIN cs[i].entries) \cup (DOMAIN resps) |->
                IF k \in DOMAIN resps THEN resps[k] ELSE cs[i].entries[k]]]
     ELSE cs[i]]

\* caches.delete(name)
delete(cs, name) == SelectSeq(cs, LAMBDA c : c.name # name)

ExistingNames == Range(keys(caches))

\* ------------------------------------------------------------ environment
\* what a store left by an earlier deployment holds (content version 0)
OldEntries ==
  [k \in {"/assets/css/main.css", "/assets/media/photo.webp", "/other/page.json"} |->
     Response(k, 0, 200)]

OldStore(n) == [name |-> n, entries |-> OldEntries]

\* the CacheStorage the worker finds when it is installed: the store of the
\* previous version tag, and possibly a store already carrying the current name
InitCaches ==
  { <<OldStore(<<"oha-", "v1">>)>>,
    <<OldStore(<<"oha-", "v1">>), OldStore(CACHE_NAME)>> }

\* every CacheStorage over the old names and the current name, in every
\* creation order (for the lifecycle alone)
AllNames == OldNames \cup {CACHE_NAME}

InitCachesAll ==
  { [i \in 1..Len(ns) |-> OldStore(ns[i])] :
      ns \in { q \in UNION {[1..n -> AllNames] : n \in 0..Cardinality(AllNames)} :
                 \A a, b \in DOMAIN q : a # b => q[a] # q[b] } }

\* fetch(url) answered by the server now: a 200 response carries the current
\* content, another status carries an error page and no content version
NetResponse(u, status) == Response(u, IF status = 200 THEN netVer ELSE 0, status)

\* the worker script has been evaluated and its listeners are registered
InitWorker ==
  /\ variant \in {"A", "B"}
  /\ netVer = 1
  /\ worker = "parsed"
  /\ install = [pc |-> "idle", fetched |-> <<>>, skipWaiting |-> FALSE]
  /\ activate = [pc |-> "idle", keys |-> <<>>, pending |-> {}, failed |-> {},
                 claimed |-> FALSE]
  /\ reqs = <<>>

Init ==
  /\ InitWorker
  /\ caches \in InitCaches

InitLifecycle ==
  /\ InitWorker
  /\ caches \in InitCachesAll

\* the content of the site changes (a deploy without a version bump); the
\* model lets it change only while the worker serves requests
NetChange ==
  /\ worker = "activated"
  /\ netVer <= MaxVer
  /\ netVer' = netVer + 1
  /\ UNCHANGED <<variant, caches, worker, install, activate, reqs>>

\* ---------------------------------------------------------------- install
\* the install listener runs: caches.open is called, the chain is handed to
\* waitUntil, skipWaiting() is called
InstallEvent ==
  /\ worker = "parsed"
  /\ worker' = "installing"
  /\ install' = [install EXCEPT !.pc = "open", !.skipWaiting = TRUE]
  /\ UNCHANGED <<variant, caches, netVer, activate, reqs>>

\* caches.open(CACHE_NAME) settles; its callback calls cache.addAll(CORE_ASSETS)
InstallOpen ==
  /\ worker = "installing"
  /\ install.pc = "open"
  /\ caches' = open(caches, CACHE_NAME)
  /\ install' = [install EXCEPT !.pc = "addAll"]
  /\ UNCHANGED <<variant, netVer, worker, activate, reqs>>

\* mutant of addAllOnFailure: each response is written as it arrives
addAllWritesFetched(cs, fetched) == putAll(cs, CACHE_NAME, fetched)

\* what addAll has written to the store when one of its fetches has failed
addAllOnFailure(cs, fetched) == cs

\* one fetch of addAll settles with an ok response: it is kept until all have
AddAllFetchOk(u) ==
  /\ worker = "installing"
  /\ install.pc = "addAll"
  /\ u \in Range(CORE_ASSETS) \ DOMAIN install.fetched
  /\ install' = [install EXCEPT !.fetched =
                   [k \in (DOMAIN install.fetched) \cup {u} |->
                      IF k = u THEN NetResponse(u, 200) ELSE install.fetched[k]]]
  /\ UNCHANGED <<variant, caches, netVer, worker, activate, reqs>>

\* one fetch of addAll fails (a network error, or a response whose status is
\* not ok): addAll rejects, the install fails and the worker is discarded
AddAllFetchFail(u) ==
  /\ worker = "installing"
  /\ install.pc = "addAll"
  /\ u \in Range(CORE_ASSETS) \ DOMAIN install.fetched
  /\ caches' = addAllOnFailure(caches, install.fetched)
  /\ install' = [install EXCEPT !.pc = "rejected"]
  /\ worker' = "redundant"
  /\ UNCHANGED <<variant, netVer, activate, reqs>>

\* every fetch of addAll has succeeded: the batch is written, the chain is
\* fulfilled and the worker is installed
AddAllCommit ==
  /\ worker = "installing"
  /\ install.pc = "addAll"
  /\ DOMAIN install.fetched = Range(CORE_ASSETS)
  /\ caches' = putAll(caches, CACHE_NAME, install.fetched)
  /\ install' = [install EXCEPT !.pc = "fulfilled", !.fetched = <<>>]
  /\ worker' = "installed"
  /\ UNCHANGED <<variant, netVer, activate, reqs>>

\* --------------------------------------------------------------- activate
\* mutant of staleKeys: the first name is skipped
staleKeysSkipFirst(ks) == {ks[i] : i \in {j \in 2..Len(ks) : ks[j] # CACHE_NAME}}

\* the names the activate listener deletes
staleKeys(ks) == {ks[i] : i \in {j \in 1..Len(ks) : ks[j] # CACHE_NAME}}

\* the state of the promise given to waitUntil by the activate listener:
\* Promise.all rejects with the first rejection, is fulfilled when all are
activatePromise(a) ==
  IF a.pc \in {"idle", "keys"} THEN "pending"
  ELSE IF a.failed # {} THEN "rejected"
  ELSE IF a.pending = {} THEN "fulfilled"
  ELSE "pending"

\* the activate listener runs (skipWaiting was called, so no page is waited
\* for): caches.keys() is called, clients.claim() is called
ActivateEvent ==
  /\ worker = "installed"
  /\ install.skipWaiting
  /\ worker' = "activating"
  /\ activate' = [activate EXCEPT !.pc = "keys", !.claimed = TRUE]
  /\ UNCHANGED <<variant, caches, netVer, install, reqs>>

\* caches.keys() settles; caches.delete is called for every other name at once
ActivateKeys ==
  /\ worker = "activating"
  /\ activate.pc = "keys"
  /\ LET a == [activate EXCEPT !.pc = "deleting", !.keys = keys(caches),
                                !.pending = staleKeys(keys(caches))]
     IN  /\ activate' = a
         /\ worker' = IF activatePromise(a) = "pending" THEN "activating" ELSE "activated"
  /\ UNCHANGED <<variant, caches, netVer, install, reqs>>

\* one caches.delete(k) is fulfilled: the store is gone
DeleteOk(k) ==
  /\ activate.pc = "deleting"
  /\ k \in activate.pending
  /\ caches' = delete(caches, k)
  /\ LET a == [activate EXCEPT !.pending = @ \ {k}]
     IN  /\ activate' = a
         /\ worker' = IF activatePromise(a) = "pending" THEN "activating" ELSE "activated"
  /\ UNCHANGED <<variant, netVer, install, reqs>>

\* mutant of DeleteFail: the first rejection abandons the deletes still
\* under way (the names are deleted one after the other)
DeleteFailAborts(k) ==
  /\ activate.pc = "deleting"
  /\ k \in activate.pending
  /\ LET a == [activate EXCEPT !.pending = {}, !.failed = @ \cup {k}]
     IN  /\ activate' = a
         /\ worker' = IF activatePromise(a) = "pending" THEN "activating" ELSE "activated"
  /\ UNCHANGED <<variant, caches, netVer, install, reqs>>

\* one caches.delete(k) is rejected by the platform: the store stays
DeleteFail(k) ==
  /\ activate.pc = "deleting"
  /\ k \in activate.pending
  /\ LET a == [activate EXCEPT !.pending = @ \ {k}, !.failed = @ \cup {k}]
     IN  /\ activate' = a
         /\ worker' = IF activatePromise(a) = "pending" THEN "activating" ELSE "activated"
  /\ UNCHANGED <<variant, caches, netVer, install, reqs>>

\* ------------------------------------------------------------ fetch events
Request(m, u, d, md) == [method |-> m, url |-> u, destination |-> d, mode |-> md]

\* the requests the pages send
Requests ==
  { Request("GET", "/assets/css/main.css", "style", "no-cors"),
    Request("GET", "/assets/media/x.css", "", "cors"),
    Request("GET", "/assets/media/photo.webp", "image", "no-cors"),
    Request("GET", "/other/page.json", "", "cors"),
    Request("GET", "/other/page.json", "document", "navigate"),
    Request("POST", "/assets/css/main.css", "style", "no-cors") }

\* the tests of the fetch listener
isStyle(rq) == endsWith(rq.url, ".css") \/ rq.destination = "style"

isImage(rq) == startsWith(rq.url, "/assets/media") \/ imageRegexTest(rq.url)

\* mutant of routeA: the image rule is tested before the stylesheet rule
routeImagesFirst(rq) ==
  IF rq.method # "GET" THEN "passthrough"
  ELSE IF isImage(rq) THEN "staleWhileRevalidate"
  ELSE IF isStyle(rq) THEN "cacheFirst"
  ELSE "default"

\* the branch the fetch listener of src/sw.js takes
routeA(rq) ==
  IF rq.method # "GET" THEN "passthrough"
  ELSE IF isStyle(rq) THEN "cacheFirst"
  ELSE IF isImage(rq) THEN "staleWhileRevalidate"
  ELSE "default"

\* the branch the fetch listener of src/unnamed/part_000 takes
routeB(rq) ==
  IF rq.method # "GET" THEN "passthrough"
  ELSE IF rq.mode = "navigate" THEN "navigate"
  ELSE IF isImage(rq) THEN "staleWhileRevalidate"
  ELSE "default"

\* mutant of route: the method of the request is not tested
routeIgnoringMethod(v, rq) ==
  IF v = "A" THEN routeA([rq EXCEPT !.method = "GET"])
  ELSE routeB([rq EXCEPT !.method = "GET"])

route(v, rq) == IF v = "A" THEN routeA(rq) ELSE routeB(rq)

\* the first promise each branch waits for
firstPc(strategy) ==
  CASE strategy = "passthrough" -> "done"
    [] strategy = "cacheFirst" -> "cf_match"
    [] strategy = "staleWhileRevalidate" -> "swr_open"
    [] strategy = "default" -> "df_match"
    [] strategy = "navigate" -> "nav_match"

\* how many times the branch calls event.respondWith
respondWithCalls(strategy) == IF strategy = "passthrough" THEN 0 ELSE 1

\* the task of a request when its fetch listener has returned
NewTask(rq) ==
  LET st == route(variant, rq)
  IN  [rq |-> rq, strategy |-> st, pc |-> firstPc(st),
       cached |-> Undefined, net |-> Pending, resp |-> Pending, putting |-> Undefined,
       nRespond |-> respondWithCalls(st), nMatch |-> 0, nOpen |-> 0, nFetch |-> 0,
       nPut |-> 0,
       afterResp |-> {j \in 1..Len(reqs) : reqs[j].rq.url = rq.url /\ reqs[j].resp # Pending},
       afterDone |-> {j \in 1..Len(reqs) : reqs[j].rq.url = rq.url /\ reqs[j].pc = "done"}]

\* a fetch event is delivered to the active worker and its listener runs
FetchEvent(rq) ==
  /\ worker = "activated"
  /\ Len(reqs) < MaxReq
  /\ reqs' = Append(reqs, NewTask(rq))
  /\ UNCHANGED <<variant, caches, netVer, worker, install, activate>>

\* -------------------------------------------------------------- cache-first
\* mutant of CFMatch: the network is fetched on a hit too (network-first)
CFMatchRefetches(i) ==
  /\ reqs[i].pc = "cf_match"
  /\ reqs' = [reqs EXCEPT ![i] =
       [@ EXCEPT !.nMatch = @ + 1, !.nFetch = @ + 1, !.pc = "cf_fetch"]]
  /\ UNCHANGED <<variant, caches, netVer, worker, install, activate>>

\* mutant of CFMatch: a hit is written back to the store
CFMatchRewrites(i) ==
  /\ reqs[i].pc = "cf_match"
  /\ LET hit == cachesMatch(caches, reqs[i].rq.url)
     IN  reqs' = [reqs EXCEPT ![i] =
           IF IsResponse(hit)
           THEN [@ EXCEPT !.cached = hit, !.nMatch = @ + 1, !.resp = hit,
                          !.putting = hit, !.pc = "put"]
           ELSE [@ EXCEPT !.nMatch = @ + 1, !.nFetch = @ + 1, !.pc = "cf_fetch"]]
  /\ UNCHANGED <<variant, caches, netVer, worker, install, activate>>

\* caches.match(event.request) settles; on a miss fetch(event.request) is called
CFMatch(i) ==
  /\ reqs[i].pc = "cf_match"
  /\ LET hit == cachesMatch(caches, reqs[i].rq.url)
     IN  reqs' = [reqs EXCEPT ![i] =
           IF IsResponse(hit)
           THEN [@ EXCEPT !.cached = hit, !.nMatch = @ + 1, !.resp = hit, !.pc = "done"]
           ELSE [@ EXCEPT !.nMatch = @ + 1, !.nFetch = @ + 1, !.pc = "cf_fetch"]]
  /\ UNCHANGED <<variant, caches, netVer, worker, install, activate>>

\* fetch settles with a response (of any status); caches.open(CACHE_NAME) is called
CFFetchOk(i, status) ==
  /\ reqs[i].pc = "cf_fetch"
  /\ reqs' = [reqs EXCEPT ![i] =
       [@ EXCEPT !.net = NetResponse(reqs[i].rq.url, status), !.pc = "cf_open"]]
  /\ UNCHANGED <<variant, caches, netVer, worker, install, activate>>

\* mutant of CFFetchFail: the rejection is swallowed and nothing is ever
\* given to respondWith
CFFetchFailHangs(i) ==
  /\ reqs[i].pc = "cf_fetch"
  /\ reqs' = [reqs EXCEPT ![i] = [@ EXCEPT !.net = NetworkError, !.pc = "done"]]
  /\ UNCHANGED <<variant, caches, netVer, worker, install, activate>>

\* fetch rejects: nothing catches it, respondWith gets the rejection
CFFetchFail(i) ==
  /\ reqs[i].pc = "cf_fetch"
  /\ reqs' = [reqs EXCEPT ![i] =
       [@ EXCEPT !.net = NetworkError, !.resp = NetworkError, !.pc = "done"]]
  /\ UNCHANGED <<variant, caches, netVer, worker, install, activate>>

\* caches.open settles; cache.put is started and not awaited, net is returned
CFOpen(i) ==
  /\ reqs[i].pc = "cf_open"
  /\ caches' = open(caches, CACHE_NAME)
  /\ reqs' = [reqs EXCEPT ![i] =
       [@ EXCEPT !.nOpen = @ + 1, !.putting = reqs[i].net, !.resp = reqs[i].net,
                 !.pc = "put"]]
  /\ UNCHANGED <<variant, netVer, worker, install, activate>>

\* a cache.put that was started completes: the entry is written
PutComplete(i) ==
  /\ reqs[i].pc = "put"
  /\ caches' = put(caches, CACHE_NAME, reqs[i].rq.url, reqs[i].putting)
  /\ reqs' = [reqs EXCEPT ![i] =
       [@ EXCEPT !.nPut = @ + 1, !.putting = Undefined, !.pc = "done"]]
  /\ UNCHANGED <<variant, netVer, worker, install, activate>>

\* ---------------------------------------------------- stale-while-revalidate
\* caches.open(CACHE_NAME) settles
SWROpen(i) ==
  /\ reqs[i].pc = "swr_open"
  /\ caches' = open(caches, CACHE_NAME)
  /\ reqs' = [reqs EXCEPT ![i] = [@ EXCEPT !.nOpen = @ + 1, !.pc = "swr_match"]]
  /\ UNCHANGED <<variant, netVer, worker, install, activate>>

\* mutant of swrReturn: the network is awaited before anything is returned
swrReturnAwaitsNetwork(cached) == Pending

\* return cached || network: what the page has once cache.match has settled
swrReturn(cached) == IF IsResponse(cached) THEN cached ELSE Pending

\* cache.match(request) settles; fetch(request) is called; cached || network
\* is returned
SWRMatch(i) ==
  /\ reqs[i].pc = "swr_match"
  /\ LET cached == storeMatch(caches, CACHE_NAME, reqs[i].rq.url)
     IN  reqs' = [reqs EXCEPT ![i] =
           [@ EXCEPT !.cached = cached, !.nMatch = @ + 1, !.nFetch = @ + 1,
                     !.resp = swrReturn(cached), !.pc = "swr_fetch"]]
  /\ UNCHANGED <<variant, caches, netVer, worker, install, activate>>

\* mutant of swrPuts: the status test is inverted
swrPutsUnlessOk(resp) == IsResponse(resp) /\ resp.status # 200

\* mutant of swrPuts: the status is not tested
swrPutsAnyStatus(resp) == IsResponse(resp)

\* if (resp && resp.status === 200) cache.put(request, resp.clone())
swrPuts(resp) == IsResponse(resp) /\ resp.status = 200

\* fetch settles with a response: it is written when its status is 200, and it
\* is what the page gets when there was no cached entry
SWRFetchOk(i, status) ==
  /\ reqs[i].pc = "swr_fetch"
  /\ LET resp == NetResponse(reqs[i].rq.url, status)
     IN  reqs' = [reqs EXCEPT ![i] =
           [@ EXCEPT !.net = resp,
                     !.resp = IF reqs[i].resp = Pending THEN resp ELSE @,
                     !.putting = IF swrPuts(resp) THEN resp ELSE Undefined,
                     !.pc = IF swrPuts(resp) THEN "put" ELSE "done"]]
  /\ UNCHANGED <<variant, caches, netVer, worker, install, activate>>

\* mutant of SWRFetchFail: the failure reaches the page although an entry was
\* returned
SWRFetchFailSurfaces(i) ==
  /\ reqs[i].pc = "swr_fetch"
  /\ reqs' = [reqs EXCEPT ![i] =
       [@ EXCEPT !.net = NetworkError, !.resp = NetworkError, !.pc = "done"]]
  /\ UNCHANGED <<variant, caches, netVer, worker, install, activate>>

\* fetch rejects: catch(() => null); respondWith(null) is a network error
SWRFetchFail(i) ==
  /\ reqs[i].pc = "swr_fetch"
  /\ reqs' = [reqs EXCEPT ![i] =
       [@ EXCEPT !.net = NetworkError,
                 !.resp = IF reqs[i].resp = Pending THEN NetworkError ELSE @,
                 !.pc = "done"]]
  /\ UNCHANGED <<variant, caches, netVer, worker, install, activate>>

\* mutant of lookupKey: the navigation branch looks up the request itself
lookupKeyOfRequest(t) == t.rq.url

\* ------------------------------------------- default and navigation branches
\* the key the branch looks up and fetches
lookupKey(t) == IF t.strategy = "navigate" THEN "/index.html" ELSE t.rq.url

\* caches.match(key) settles: resp || fetch(key)
DFMatch(i) ==
  /\ reqs[i].pc \in {"df_match", "nav_match"}
  /\ LET hit == cachesMatch(caches, lookupKey(reqs[i]))
     IN  reqs' = [reqs EXCEPT ![i] =
           IF IsResponse(hit)
           THEN [@ EXCEPT !.cached = hit, !.nMatch = @ + 1, !.resp = hit, !.pc = "done"]
           ELSE [@ EXCEPT !.nMatch = @ + 1, !.nFetch = @ + 1, !.pc = "df_fetch"]]
  /\ UNCHANGED <<variant, caches, netVer, worker, install, activate>>

\* mutant of DFFetchOk: the response is written back to the store
DFFetchOkWritesBack(i, status) ==
  /\ reqs[i].pc = "df_fetch"
  /\ LET resp == NetResponse(lookupKey(reqs[i]), status)
     IN  /\ reqs' = [reqs EXCEPT ![i] =
               [@ EXCEPT !.net = resp, !.resp = resp, !.pc = "done"]]
         /\ caches' = put(caches, CACHE_NAME, lookupKey(reqs[i]), resp)
  /\ UNCHANGED <<variant, netVer, worker, install, activate>>

\* fetch settles with a response: the page gets it, nothing is written
DFFetchOk(i, status) ==
  /\ reqs[i].pc = "df_fetch"
  /\ LET resp == NetResponse(lookupKey(reqs[i]), status)
     IN  reqs' = [reqs EXCEPT ![i] = [@ EXCEPT !.net = resp, !.resp = resp, !.pc = "done"]]
  /\ UNCHANGED <<variant, caches, netVer, worker, install, activate>>

\* fetch rejects: the page gets the network error
DFFetchFail(i) ==
  /\ reqs[i].pc = "df_fetch"
  /\ reqs' = [reqs EXCEPT ![i] =
       [@ EXCEPT !.net = NetworkError, !.resp = NetworkError, !.pc = "done"]]
  /\ UNCHANGED <<variant, caches, netVer, worker, install, activate>>

\* ------------------------------------------------------------ specification
Next ==
  \/ NetChange
  \/ InstallEvent
  \/ InstallOpen
  \/ \E u \in Range(CORE_ASSETS) : AddAllFetchOk(u)
  \/ \E u \in Range(CORE_ASSETS) : AddAllFetchFail(u)
  \/ AddAllCommit
  \/ ActivateEvent
  \/ ActivateKeys
  \/ \E k \in activate.pending : DeleteOk(k)
  \/ \E k \in activate.pending : DeleteFail(k)
  \/ \E rq \in Requests : FetchEvent(rq)
  \/ \E i \in 1..Len(reqs) : CFMatch(i)
  \/ \E i \in 1..Len(reqs), s \in Statuses : CFFetchOk(i, s)
  \/ \E i \in 1..Len(reqs) : CFFetchFail(i)
  \/ \E i \in 1..Len(reqs) : CFOpen(i)
  \/ \E i \in 1..Len(reqs) : PutComplete(i)
  \/ \E i \in 1..Len(reqs) : SWROpen(i)
  \/ \E i \in 1..Len(reqs) : SWRMatch(i)
  \/ \E i \in 1..Len(reqs), s \in Statuses : SWRFetchOk(i, s)
  \/ \E i \in 1..Len(reqs) : SWRFetchFail(i)
  \/ \E i \in 1..Len(reqs) : DFMatch(i)
  \/ \E i \in 1..Len(reqs), s \in Statuses : DFFetchOk(i, s)
  \/ \E i \in 1..Len(reqs) : DFFetchFail(i)

Spec == Init /\ [][Next]_vars

\* the install and activate listeners alone, from any CacheStorage
NextLifecycle ==
  \/ InstallEvent
  \/ InstallOpen
  \/ \E u \in Range(CORE_ASSETS) : AddAllFetchOk(u)
  \/ \E u \in Range(CORE_ASSETS) : AddAllFetchFail(u)
  \/ AddAllCommit
  \/ ActivateEvent
  \/ ActivateKeys
  \/ \E k \in activate.pending : DeleteOk(k)
  \/ \E k \in activate.pending : DeleteFail(k)

SpecLifecycle == InitLifecycle /\ [][NextLifecycle]_vars

\* the fetch listener alone, applied to requests of every shape by an
\* active worker whose store holds the manifest
Methods == {"GET", "POST"}

Paths ==
  {"/index.html", "/favicon.svg", "/assets/css/main.css", "/assets/media/photo.webp",
   "/assets/media/x.css", "/other/page.json", "/font"}

Destinations == {"", "style", "image"}

Modes == {"navigate", "no-cors"}

AllRequests ==
  {Request(m, u, d, md) : m \in Methods, u \in Paths, d \in Destinations, md \in Modes}

InitRoute ==
  /\ variant \in {"A", "B"}
  /\ caches = <<[name |-> CACHE_NAME,
                 entries |-> [k \in Range(CORE_ASSETS) |-> Response(k, 1, 200)]]>>
  /\ netVer = 1
  /\ worker = "activated"
  /\ install = [pc |-> "fulfilled", fetched |-> <<>>, skipWaiting |-> TRUE]
  /\ activate = [pc |-> "deleting", keys |-> <<CACHE_NAME>>, pending |-> {},
                 failed |-> {}, claimed |-> TRUE]
  /\ reqs = <<>>

NextRoute == \E rq \in AllRequests : FetchEvent(rq)

SpecRoute == InitRoute /\ [][NextRoute]_vars

\* ------------------------------------------------- the end of a worker's life
\* The fetch listener of an active worker up to and after the moment the next
\* deployment takes over: the successor (the same script with another
\* CACHE_VERSION) calls skipWaiting, so it activates at once, this worker
\* becomes redundant and gets no new fetch event, and the successor's activate
\* listener deletes every store that does not carry the successor's name,
\* the store of this worker included, while the requests this worker has
\* accepted are still being handled.

\* the store of this worker as its install left it
InstalledStore ==
  [name |-> CACHE_NAME, entries |-> [k \in Range(CORE_ASSETS) |-> Response(k, 1, 200)]]

\* the requests the pages send, with navigations to two URLs
RequestsFetch ==
  { Request("GET", "/assets/css/main.css", "style", "no-cors"),
    Request("GET", "/assets/media/photo.webp", "image", "no-cors"),
    Request("GET", "/other/page.json", "", "cors"),
    Request("GET", "/other/page.json", "document", "navigate"),
    Request("GET", "/assets/media/photo.webp", "document", "navigate"),
    Request("POST", "/assets/css/main.css", "style", "no-cors") }

\* a task that has a store opened (cache.match or cache.put on it is to come)
holdsStore(t) == t.pc \in {"swr_match", "swr_fetch", "put"}

\* the activate listener of the successor deletes store k: caches.delete(k)
\* for a name that is not the successor's.  It is taken only while no task
\* of this worker has a store opened.
SuccessorDelete(k) ==
  /\ worker \in {"activated", "redundant"}
  /\ has(caches, k)
  /\ \A i \in 1..Len(reqs) : ~holdsStore(reqs[i])
  /\ caches' = delete(caches, k)
  /\ worker' = "redundant"
  /\ UNCHANGED <<variant, netVer, install, activate, reqs>>

\* the worker is active, its store is populated; a store of the previous
\* version may have survived a rejected caches.delete
InitFetch ==
  /\ variant \in {"A", "B"}
  /\ caches \in { <<InstalledStore>>, <<OldStore(<<"oha-", "v1">>), InstalledStore>> }
  /\ netVer = 1
  /\ worker = "activated"
  /\ install = [pc |-> "fulfilled", fetched |-> <<>>, skipWaiting |-> TRUE]
  /\ activate = [pc |-> "deleting", keys |-> keys(caches), pending |-> {},
                 failed |-> staleKeys(keys(caches)), claimed |-> TRUE]
  /\ reqs = <<>>

\* one step of the handling of request i: a promise it waits for settles
TaskStep(i) ==
  /\ i \in 1..Len(reqs)
  /\ \/ CFMatch(i)
     \/ \E s \in Statuses : CFFetchOk(i, s)
     \/ CFFetchFail(i)
     \/ CFOpen(i)
     \/ PutComplete(i)
     \/ SWROpen(i)
     \/ SWRMatch(i)
     \/ \E s \in Statuses : SWRFetchOk(i, s)
     \/ SWRFetchFail(i)
     \/ DFMatch(i)
     \/ \E s \in Statuses : DFFetchOk(i, s)
     \/ DFFetchFail(i)

NextFetch ==
  \/ \E rq \in RequestsFetch : FetchEvent(rq)
  \/ \E k \in AllNames : SuccessorDelete(k)
  \/ \E i \in 1..Len(reqs) : CFMatch(i)
  \/ \E i \in 1..Len(reqs), s \in Statuses : CFFetchOk(i, s)
  \/ \E i \in 1..Len(reqs) : CFFetchFail(i)
  \/ \E i \in 1..Len(reqs) : CFOpen(i)
  \/ \E i \in 1..Len(reqs) : PutComplete(i)
  \/ \E i \in 1..Len(reqs) : SWROpen(i)
  \/ \E i \in 1..Len(reqs) : SWRMatch(i)
  \/ \E i \in 1..Len(reqs), s \in Statuses : SWRFetchOk(i, s)
  \/ \E i \in 1..Len(reqs) : SWRFetchFail(i)
  \/ \E i \in 1..Len(reqs) : DFMatch(i)
  \/ \E i \in 1..Len(reqs), s \in Statuses : DFFetchOk(i, s)
  \/ \E i \in 1..Len(reqs) : DFFetchFail(i)

SpecFetch == InitFetch /\ [][NextFetch]_vars

\* the same, every promise a request waits for eventually settling
SpecFetchFair == SpecFetch /\ \A i \in 1..MaxReq : WF_vars(TaskStep(i))

Tasks == 1..Len(reqs)

\* ------------------------------------------------------------------ claims
NoCacheUse(t) ==
  /\ t.nMatch = 0
  /\ t.nOpen = 0
  /\ t.nPut = 0
  /\ t.nFetch = 0
  /\ t.putting = Undefined

\* C1: a request whose method is not GET is not answered with respondWith and
\* the worker never reads, writes or opens a store for it; the step in which
\* its fetch listener runs leaves every store and entry as it was (both variants)
C1_NonGetUntouched ==
  [][ /\ \A i \in 1..Len(reqs') :
           reqs'[i].rq.method # "GET" =>
             /\ reqs'[i].nRespond = 0
             /\ reqs'[i].resp = Pending
             /\ reqs'[i].pc = "done"
             /\ NoCacheUse(reqs'[i])
      /\ (Len(reqs') > Len(reqs) /\ reqs'[Len(reqs')].rq.method # "GET") =>
           caches' = caches ]_vars

C1_Witness ==
  \E i \in Tasks :
    /\ reqs[i].rq.method = "POST"
    /\ isStyle(reqs[i].rq)
    /\ reqs[i].pc = "done"
    /\ \E j \in Tasks : reqs[j].nPut > 0

C3_StaleReturnedAtOnce ==
  [][ \A i \in Tasks :
        LET e == storeMatch(caches, CACHE_NAME, reqs[i].rq.url)
        IN  /\ (reqs[i].pc = "swr_match" /\ reqs'[i].pc # "swr_match" /\ IsResponse(e)) =>
                 (reqs'[i].resp = e /\ reqs'[i].net = Pending)
            /\ (reqs[i].strategy = "staleWhileRevalidate" /\ IsResponse(reqs[i].cached)) =>
                 reqs'[i].resp = reqs[i].cached ]_vars

C3_Witness ==
  \E i \in Tasks :
    /\ reqs[i].strategy = "staleWhileRevalidate"
    /\ IsResponse(reqs[i].cached)
    /\ reqs[i].resp = reqs[i].cached
    /\ reqs[i].net = Pending
    /\ reqs[i].pc = "swr_fetch"

\* the tasks whose request has URL u
TasksFor(u) == {i \in Tasks : reqs[i].rq.url = u}

\* the tasks whose fetch of u was answered with status 200
OkFetches(u) == {i \in TasksFor(u) : IsResponse(reqs[i].net) /\ reqs[i].net.status = 200}

\* the response of the latest successful fetch of u
LatestOk(u) ==
  LET i == CHOOSE a \in OkFetches(u) : \A b \in OkFetches(u) : reqs[b].net.ver <= reqs[a].net.ver
  IN  reqs[i].net

Quiescent(u) == \A i \in TasksFor(u) : reqs[i].pc = "done"

AllSWR(u) == \A i \in TasksFor(u) : reqs[i].strategy = "staleWhileRevalidate"

\* the requests for u were issued one at a time, each after the one before
\* it had completed its fetch and its cache write
Sequential(u) == \A i, j \in TasksFor(u) : i < j => i \in reqs[j].afterDone

\* C4 as stated: once the stale-while-revalidate requests for a URL have
\* completed their fetches and writes, the entry is the latest successful
\* fetch of the URL, however the requests overlapped
C4_Original ==
  \A i \in Tasks :
    LET u == reqs[i].rq.url
    IN  ( /\ reqs[i].strategy = "staleWhileRevalidate"
          /\ IsResponse(reqs[i].cached)
          /\ AllSWR(u)
          /\ Quiescent(u)
          /\ OkFetches(u) # {} ) =>
          storeMatch(caches, CACHE_NAME, u) = LatestOk(u)

\* C4 amended: the same, for requests to the URL that do not overlap
C4_LatestFetchWhenSequential ==
  \A i \in Tasks :
    LET u == reqs[i].rq.url
    IN  ( /\ reqs[i].strategy = "staleWhileRevalidate"
          /\ IsResponse(reqs[i].cached)
          /\ AllSWR(u)
          /\ Quiescent(u)
          /\ Sequential(u)
          /\ OkFetches(u) # {} ) =>
          storeMatch(caches, CACHE_NAME, u) = LatestOk(u)

C4_Witness ==
  \E i, j \in Tasks :
    /\ i < j
    /\ reqs[i].rq.url = reqs[j].rq.url
    /\ reqs[i].strategy = "staleWhileRevalidate"
    /\ reqs[j].strategy = "staleWhileRevalidate"
    /\ IsResponse(reqs[i].cached)
    /\ Sequential(reqs[i].rq.url)
    /\ Quiescent(reqs[i].rq.url)
    /\ {i, j} \subseteq OkFetches(reqs[i].rq.url)
    /\ reqs[j].net.ver > reqs[i].net.ver
    /\ storeMatch(caches, CACHE_NAME, reqs[i].rq.url) = reqs[j].net

OnlyCurrentStore == Len(caches) = 1 /\ caches[1].name = CACHE_NAME

\* C5 as stated: once install and activate have completed, whatever stores
\* existed before, the store of the current tag is the only store
C5_Original == worker = "activated" => OnlyCurrentStore

\* C5 amended: the same when no caches.delete was rejected, that is when the
\* promise of the activate listener is fulfilled
C5_OneStoreWhenDeletesSucceed ==
  (worker = "activated" /\ activatePromise(activate) = "fulfilled") => OnlyCurrentStore

C5_Witness ==
  /\ worker = "activated"
  /\ activatePromise(activate) = "fulfilled"
  /\ Len(activate.keys) = 3
  /\ activate.keys[3] # CACHE_NAME
  /\ OnlyCurrentStore

\* a response this install attempt has fetched (older stores hold version 0)
FetchedNow(r) == IsResponse(r) /\ r.ver >= 1

\* C6: while addAll is in progress and after it has failed the store holds no
\* response of this install attempt for any manifest URL, and a failed fetch
\* fails the install; after it has succeeded every manifest URL has its entry
C6_AtomicPopulation ==
  /\ install.pc \in {"addAll", "rejected"} =>
       \A u \in Range(CORE_ASSETS) : ~FetchedNow(storeMatch(caches, CACHE_NAME, u))
  /\ install.pc = "rejected" => worker = "redundant"
  /\ install.pc = "fulfilled" =>
       \A u \in Range(CORE_ASSETS) : FetchedNow(storeMatch(caches, CACHE_NAME, u))

C6_Witness ==
  /\ install.pc = "rejected"
  /\ worker = "redundant"
  /\ Cardinality(DOMAIN install.fetched) = Len(CORE_ASSETS) - 1
  /\ has(caches, CACHE_NAME)
  /\ \A u \in Range(CORE_ASSETS) : ~FetchedNow(storeMatch(caches, CACHE_NAME, u))

\* tasks i and j carry the same request and both took the cache-first branch
SameRequestCF(i, j) ==
  /\ i # j
  /\ reqs[i].rq = reqs[j].rq
  /\ reqs[i].strategy = "cacheFirst"
  /\ reqs[j].strategy = "cacheFirst"

\* task i found no entry and its fetch was answered with status 200
MissedAndFetched200(i) ==
  /\ reqs[i].cached = Undefined
  /\ IsResponse(reqs[i].net)
  /\ reqs[i].net.status = 200

\* no task other than i and j has written the key of task i
NoThirdWriter(i, j) == \A k \in TasksFor(reqs[i].rq.url) \ {i, j} : reqs[k].nPut = 0

\* C7 as stated: a stylesheet request that missed and fetched a 200 response
\* returns it, and an identical request issued any time after that response
\* was returned, getting nothing from the network, returns the same response
C7_Original ==
  \A i, j \in Tasks :
    ( /\ SameRequestCF(i, j)
      /\ MissedAndFetched200(i)
      /\ i \in reqs[j].afterResp
      /\ reqs[j].pc = "done"
      /\ ~IsResponse(reqs[j].net) ) =>
      (reqs[i].resp = reqs[i].net /\ reqs[j].resp = reqs[i].net)

\* C7 amended: an identical request issued after the cache.put of the first
\* request has completed is served from the store, without a fetch; it gets
\* the body the first request returned when no third request wrote the key
C7_SameBodyAfterPut ==
  \A i, j \in Tasks :
    ( /\ SameRequestCF(i, j)
      /\ MissedAndFetched200(i)
      /\ i \in reqs[j].afterDone
      /\ reqs[j].pc = "done" ) =>
      /\ reqs[i].resp = reqs[i].net
      /\ reqs[j].nFetch = 0
      /\ IsResponse(reqs[j].resp)
      /\ NoThirdWriter(i, j) => reqs[j].resp = reqs[i].net

C7_Witness ==
  \E i, j \in Tasks :
    /\ SameRequestCF(i, j)
    /\ MissedAndFetched200(i)
    /\ i \in reqs[j].afterDone
    /\ reqs[j].pc = "done"
    /\ reqs[j].resp = reqs[i].net
    /\ reqs[j].nFetch = 0

\* C8 as stated: when the second of two cache-first requests for a URL
\* completes, the entry equals a direct fetch of the URL at that time, also
\* when the content changed after the first request
C8_Original ==
  [][ \A i, j \in Tasks :
        ( /\ SameRequestCF(i, j)
          /\ MissedAndFetched200(i)
          /\ i \in reqs[j].afterDone
          /\ reqs[j].pc # "done"
          /\ reqs'[j].pc = "done" ) =>
          storeMatch(caches', CACHE_NAME, reqs[j].rq.url)
            = Response(reqs[j].rq.url, netVer', 200) ]_vars

\* C8 amended: the second of two cache-first requests for a URL neither
\* fetches nor writes; when no third request wrote the key the entry is the
\* response of the first fetch, and it equals a direct fetch as long as the
\* content has not changed since that fetch
C8_EntryIsFirstFetch ==
  \A i, j \in Tasks :
    ( /\ SameRequestCF(i, j)
      /\ MissedAndFetched200(i)
      /\ i \in reqs[j].afterDone
      /\ reqs[j].pc = "done" ) =>
      /\ reqs[j].nFetch = 0
      /\ reqs[j].nPut = 0
      /\ NoThirdWriter(i, j) =>
           /\ storeMatch(caches, CACHE_NAME, reqs[j].rq.url) = reqs[i].net
           /\ netVer = reqs[i].net.ver =>
                storeMatch(caches, CACHE_NAME, reqs[j].rq.url)
                  = Response(reqs[j].rq.url, netVer, 200)

C8_Witness ==
  \E i, j \in Tasks :
    /\ SameRequestCF(i, j)
    /\ MissedAndFetched200(i)
    /\ i \in reqs[j].afterDone
    /\ reqs[j].pc = "done"
    /\ netVer > reqs[i].net.ver
    /\ storeMatch(caches, CACHE_NAME, reqs[j].rq.url) = reqs[i].net

\* C9: no step of a request in the default branch changes a store or an
\* entry, whatever the outcome; a hit is returned without a fetch; when the
\* lookup missed and the fetch fails the page gets the network error and the
\* step writes no entry (both variants)
C9_DefaultNeverWrites ==
  [][ \A i \in Tasks :
        LET key == reqs[i].rq.url
            hit == cachesMatch(caches, key)
        IN  reqs[i].strategy = "default" =>
              /\ reqs'[i] # reqs[i] => caches' = caches
              /\ reqs'[i].nPut = 0 /\ reqs'[i].nOpen = 0 /\ reqs'[i].putting = Undefined
              /\ (reqs[i].pc = "df_match" /\ reqs'[i].pc # "df_match" /\ IsResponse(hit)) =>
                   (reqs'[i].resp = hit /\ reqs'[i].nFetch = 0 /\ reqs'[i].pc = "done")
              /\ (reqs[i].pc = "df_fetch" /\ reqs'[i].net = NetworkError) =>
                   /\ reqs'[i].resp = NetworkError
                   /\ reqs'[i].pc = "done"
                   /\ cachesMatch(caches', key) = hit ]_vars

C9_Witness ==
  \E i \in Tasks :
    /\ reqs[i].strategy = "default"
    /\ reqs[i].rq.url = "/other/page.json"
    /\ reqs[i].cached = Undefined
    /\ reqs[i].net = NetworkError
    /\ reqs[i].resp = NetworkError
    /\ cachesMatch(caches, "/other/page.json") = Undefined

C11_ReadsOnlyActiveStore ==
  [][ \A i \in Tasks :
        ( /\ reqs[i].strategy \in {"cacheFirst", "default", "staleWhileRevalidate"}
          /\ reqs[i].nMatch = 0
          /\ reqs'[i].nMatch = 1
          /\ IsResponse(reqs'[i].cached) ) =>
          reqs'[i].cached = storeMatch(caches, CACHE_NAME, reqs[i].rq.url) ]_vars

\* C12: no step of the handling of a fetch request changes the set of
\* existing store names; a stale-while-revalidate or cache-first request
\* handled while the store of the current tag does not exist does not
\* create it
C12_FetchKeepsStoreNames ==
  [][ reqs' # reqs => Range(keys(caches')) = Range(keys(caches)) ]_vars

\* a fetch that settled with the success status
FetchSucceeded(r) == IsResponse(r) /\ r.status = 200

\* C13: a cache-first request whose fetch failed or was answered with a
\* non-success status starts no cache.put, writes no entry and leaves the
\* stores unchanged; the entry a cache-first request writes is that of a
\* successful fetch, keyed by the request and equal to the returned response
C13_WritesOnlyOnSuccess ==
  [][ \A i \in Tasks :
        reqs[i].strategy = "cacheFirst" =>
          /\ (reqs'[i].net # Pending /\ ~FetchSucceeded(reqs'[i].net)) =>
               /\ reqs'[i].putting = Undefined
               /\ reqs'[i].nPut = 0
               /\ reqs'[i] # reqs[i] => caches' = caches
          /\ (reqs[i].pc = "put" /\ reqs'[i].pc = "done") =>
               /\ FetchSucceeded(reqs[i].net)
               /\ storeMatch(caches', CACHE_NAME, reqs[i].rq.url) = reqs[i].resp ]_vars

\* C14: a stale-while-revalidate request that found a cached entry keeps it
\* as its response when the revalidation fetch fails, and the failure reaches
\* nobody; a request that found none has no response until its fetch settles,
\* and then gets the fetched response, or the failure when the fetch failed
C14_ErrorSwallowedOnHit ==
  [][ \A i \in Tasks :
        reqs[i].strategy = "staleWhileRevalidate" =>
          /\ (reqs[i].pc = "swr_fetch" /\ IsResponse(reqs[i].cached)) =>
               /\ reqs[i].resp = reqs[i].cached
               /\ reqs'[i].resp = reqs[i].cached
               /\ reqs'[i].net = NetworkError => (reqs'[i].pc = "done" /\ caches' = caches)
          /\ (reqs[i].pc = "swr_fetch" /\ ~IsResponse(reqs[i].cached)) =>
               /\ reqs[i].resp = Pending
               /\ reqs'[i].pc # "swr_fetch" =>
                    /\ reqs'[i].resp = reqs'[i].net
                    /\ reqs'[i].net # Pending
               /\ reqs'[i].net = NetworkError => (reqs'[i].pc = "done" /\ caches' = caches) ]_vars

C14_Witness ==
  \E i, j \in Tasks :
    /\ reqs[i].strategy = "staleWhileRevalidate"
    /\ reqs[j].strategy = "staleWhileRevalidate"
    /\ IsResponse(reqs[i].cached)
    /\ reqs[i].net = NetworkError
    /\ reqs[i].resp = reqs[i].cached
    /\ reqs[i].pc = "done"
    /\ reqs[j].cached = Undefined
    /\ reqs[j].net = NetworkError
    /\ reqs[j].resp = NetworkError

\* C15: a stale-while-revalidate request starts its fetch when the lookup has
\* settled, with or without an entry; a fetch answered with status 200 starts
\* the cache.put of that response, which writes it under the request, also
\* when the page was given the entry; a fetch that fails or is answered with
\* another status starts no cache.put and leaves the stores unchanged
C15_WritesExactlyOn200 ==
  [][ \A i \in Tasks :
        reqs[i].strategy = "staleWhileRevalidate" =>
          /\ (reqs[i].pc = "swr_match" /\ reqs'[i].pc # "swr_match") =>
               /\ reqs'[i].nFetch = 1
               /\ reqs'[i].pc = "swr_fetch"
          /\ (reqs[i].pc = "swr_fetch" /\ reqs'[i].pc # "swr_fetch") =>
               IF FetchSucceeded(reqs'[i].net)
               THEN /\ reqs'[i].pc = "put"
                    /\ reqs'[i].putting = reqs'[i].net
               ELSE /\ reqs'[i].pc = "done"
                    /\ reqs'[i].putting = Undefined
                    /\ reqs'[i].nPut = 0
                    /\ caches' = caches
          /\ (reqs[i].pc = "put" /\ reqs'[i].pc = "done") =>
               /\ FetchSucceeded(reqs[i].net)
               /\ reqs'[i].nPut = 1
               /\ storeMatch(caches', CACHE_NAME, reqs[i].rq.url) = reqs[i].net
          /\ reqs'[i].nPut > 0 => FetchSucceeded(reqs'[i].net) ]_vars

C15_Witness ==
  \E i, j \in Tasks :
    /\ reqs[i].strategy = "staleWhileRevalidate"
    /\ reqs[j].strategy = "staleWhileRevalidate"
    /\ reqs[i].rq.url = reqs[j].rq.url
    /\ IsResponse(reqs[i].cached)
    /\ reqs[i].resp = reqs[i].cached
    /\ FetchSucceeded(reqs[i].net)
    /\ reqs[i].net # reqs[i].cached
    /\ reqs[i].nPut = 1
    /\ i \in reqs[j].afterDone
    /\ reqs[j].cached = reqs[i].net
    /\ IsResponse(reqs[j].net)
    /\ reqs[j].net.status = 404
    /\ reqs[j].pc = "done"
    /\ reqs[j].nPut = 0
    /\ storeMatch(caches, CACHE_NAME, reqs[i].rq.url) = reqs[i].net

\* the tasks that complete a cache.put in the step
PutsNow(u) == {i \in TasksFor(u) : reqs[i].pc = "put" /\ reqs'[i].pc = "done"}

\* the tasks that have written the key u
Writers(u) == {i \in TasksFor(u) : reqs[i].nPut > 0}

\* C16: while the worker serves requests, a cache.put that completes leaves
\* under its key the one complete response it was given, whatever other
\* writes of the key are in flight or were applied before; a step that
\* completes no write of a key leaves its entry as it was, so the entry is
\* always that of the write applied last, never absent after a write and
\* never a mixture
C16_LastWriterWins ==
  [][ (worker = "activated" /\ worker' = "activated") =>
        /\ \A i \in Tasks :
             (reqs[i].pc = "put" /\ reqs'[i].pc = "done") =>
               /\ IsResponse(reqs[i].putting)
               /\ reqs[i].putting = reqs[i].net
               /\ storeMatch(caches', CACHE_NAME, reqs[i].rq.url) = reqs[i].putting
        /\ \A i \in Tasks :
             LET u == reqs[i].rq.url
             IN  /\ PutsNow(u) = {} =>
                      storeMatch(caches', CACHE_NAME, u) = storeMatch(caches, CACHE_NAME, u)
                 /\ Writers(u) # {} =>
                      storeMatch(caches, CACHE_NAME, u) \in {reqs[k].net : k \in Writers(u)} ]_vars

C16_Witness ==
  \E i, j \in Tasks :
    /\ i < j
    /\ reqs[i].rq.url = reqs[j].rq.url
    /\ i \notin reqs[j].afterResp
    /\ reqs[i].nPut = 1
    /\ reqs[j].nPut = 1
    /\ reqs[i].pc = "done"
    /\ reqs[j].pc = "done"
    /\ reqs[j].net.ver > reqs[i].net.ver
    /\ storeMatch(caches, CACHE_NAME, reqs[i].rq.url) = reqs[i].net

\* the keys the store called n holds
KeysOf(cs, n) == DOMAIN cs[IndexOf(cs, n)].entries

\* C17: in every step a store that stays holds every key it held, and the
\* steps of fetch requests, whatever their method, keep every store; a
\* store, and with it its keys, goes only when the activate listener
\* deletes it, which is never the store of the current tag
C17_KeysNeverShrink ==
  [][ \A n \in ExistingNames :
        /\ has(caches', n) => KeysOf(caches, n) \subseteq KeysOf(caches', n)
        /\ reqs' # reqs => has(caches', n)
        /\ ~has(caches', n) =>
             /\ n # CACHE_NAME
             /\ activate.pc = "deleting"
             /\ n \in activate.pending
             /\ n \notin activate'.pending ]_vars

C17_Witness ==
  \E i \in Tasks :
    /\ reqs[i].nPut = 1
    /\ IsResponse(reqs[i].cached)
    /\ storeMatch(caches, CACHE_NAME, reqs[i].rq.url) # reqs[i].cached
    /\ \E j \in Tasks : reqs[j].rq.method = "POST"
    /\ Range(CORE_ASSETS) \cup DOMAIN OldEntries \subseteq KeysOf(caches, CACHE_NAME)
    /\ ~has(caches, <<"oha-", "v1">>)

\* the promises a request of each strategy waits for, and its end
pcsOf(strategy) ==
  CASE strategy = "passthrough" -> {"done"}
    [] strategy = "cacheFirst" -> {"cf_match", "cf_fetch", "cf_open", "put", "done"}
    [] strategy = "staleWhileRevalidate" -> {"swr_open", "swr_match", "swr_fetch", "put", "done"}
    [] strategy = "default" -> {"df_match", "df_fetch", "done"}
    [] strategy = "navigate" -> {"nav_match", "df_fetch", "done"}

\* the request has been handled: nothing is awaited any more, and the page
\* of a GET request has a response or the failure
Terminal(t) == t.pc = "done" /\ (t.rq.method = "GET" => t.resp # Pending)

\* C18: when every promise a request waits for settles, again and again
\* every request accepted so far is in its terminal state, and a request in
\* its terminal state stays in it, so no request is pending forever; from
\* its classification on a request runs the steps of the one strategy the
\* router chose
C18_EveryRequestTerminates ==
  /\ []<>(\A i \in Tasks : Terminal(reqs[i]))
  /\ [](\A i \in Tasks :
          /\ reqs[i].strategy = route(variant, reqs[i].rq)
          /\ reqs[i].pc \in pcsOf(reqs[i].strategy))
  /\ [][ \A i \in Tasks :
           /\ reqs'[i].strategy = reqs[i].strategy
           /\ Terminal(reqs[i]) => reqs'[i] = reqs[i] ]_vars

C18_Witness ==
  /\ Len(reqs) = MaxReq
  /\ \A i \in Tasks : Terminal(reqs[i])
  /\ \E i, j \in Tasks :
       /\ reqs[i].resp = NetworkError
       /\ reqs[i].strategy = "cacheFirst"
       /\ reqs[j].strategy = "staleWhileRevalidate"
       /\ reqs[j].nPut = 1

\* C20: in src/unnamed/part_000 a GET request in navigation mode takes the
\* navigation branch whatever its URL (a media URL too); when the lookup of
\* '/index.html' settles it gets the cached entry of '/index.html' if there
\* is one, without a fetch, and else fetch('/index.html') is started, whose
\* response or failure it gets; its steps open and write no store
C20_NavigationServesAppShell ==
  [][ \A i \in 1..Len(reqs') :
        (variant = "B" /\ reqs'[i].rq.method = "GET" /\ reqs'[i].rq.mode = "navigate") =>
          /\ reqs'[i].strategy = "navigate"
          /\ reqs'[i].nRespond = 1
          /\ reqs'[i].nOpen = 0
          /\ reqs'[i].nPut = 0
          /\ reqs'[i].putting = Undefined
          /\ i \in Tasks =>
               /\ reqs'[i] # reqs[i] => caches' = caches
               /\ (reqs[i].pc = "nav_match" /\ reqs'[i].pc # "nav_match") =>
                    LET hit == cachesMatch(caches, "/index.html")
                    IN  IF IsResponse(hit)
                        THEN reqs'[i].resp = hit /\ reqs'[i].pc = "done" /\ reqs'[i].nFetch = 0
                        ELSE reqs'[i].resp = Pending /\ reqs'[i].pc = "df_fetch"
                             /\ reqs'[i].nFetch = 1
               /\ (reqs[i].pc = "df_fetch" /\ reqs'[i].pc # "df_fetch") =>
                    /\ reqs'[i].pc = "done"
                    /\ reqs'[i].resp = reqs'[i].net
                    /\ \/ reqs'[i].net = NetworkError
                       \/ \E s \in Statuses : reqs'[i].net = NetResponse("/index.html", s) ]_vars

C20_Witness ==
  \E i, j \in Tasks :
    /\ variant = "B"
    /\ reqs[i].rq = Request("GET", "/assets/media/photo.webp", "document", "navigate")
    /\ reqs[i].strategy = "navigate"
    /\ reqs[i].resp = Response("/index.html", 1, 200)
    /\ reqs[i].nFetch = 0
    /\ reqs[j].rq = Request("GET", "/other/page.json", "document", "navigate")
    /\ reqs[j].cached = Undefined
    /\ reqs[j].nFetch = 1
    /\ reqs[j].resp = Response("/index.html", 0, 404)
    /\ cachesMatch(caches, "/index.html") = Undefined

\* the names the activate listener was to delete, from the names it read
ToDelete == {k \in Range(activate.keys) : k # CACHE_NAME}

\* C19: once the activate listener has read the names, every name other than
\* the current one has its caches.delete under way, fulfilled (the store is
\* gone) or rejected (the store is in place), whatever happened to the
\* others; the store of the current tag is never deleted; a rejected delete
\* does not keep the worker from becoming active with the clients claimed;
\* when all deletes have settled the stores left are the current one and
\* those whose delete was rejected
C19_CleanupBestEffort ==
  activate.pc = "deleting" =>
    /\ has(caches, CACHE_NAME)
    /\ CACHE_NAME \notin activate.pending \cup activate.failed
    /\ activate.pending \cup activate.failed \subseteq ToDelete
    /\ \A k \in ToDelete :
         has(caches, k) <=> k \in activate.pending \cup activate.failed
    /\ activate.failed # {} => (worker = "activated" /\ activate.claimed)
    /\ activate.pending = {} =>
         /\ worker = "activated"
         /\ activate.claimed
         /\ ExistingNames = activate.failed \cup {CACHE_NAME}

C19_Witness ==
  /\ activate.pc = "deleting"
  /\ worker = "activated"
  /\ activate.claimed
  /\ activate.pending = {}
  /\ activate.failed = {<<"oha-", "v0">>}
  /\ activate.keys = << <<"oha-", "v0">>, CACHE_NAME, <<"oha-", "v1">> >>
  /\ ExistingNames = {<<"oha-", "v0">>, CACHE_NAME}
====
